---- MODULE Spec2Model ----
(***************************************************************************)
(* CollectionUtils (src/src/utilities/collection-utils.ts): a table of     *)
(* stateless functions over plain arrays and Immutable.List values.        *)
(* Every behaviour of the model is one call: Init draws the operation and  *)
(* its arguments, the operation's action applies the function and records  *)
(* what it returned and what it left in the store of arrays.               *)
(***************************************************************************)
EXTENDS Integers, Sequences, FiniteSets

VARIABLES
    op,            \* the function of CollectionUtils being called
    pc,            \* "call" before the function has run, "done" after
    collections,   \* the rest arguments of isEmpty / isNotEmpty / hasValues
    selector,      \* the selector of equalsBy
    array1,        \* first collection of equalsBy, the argument of length
    array2,        \* second collection of equalsBy
    heap,          \* store of plain arrays by reference; "source" is the argument
    sourceAtCall,  \* contents of the source array when the call was made
    index,         \* index argument of removeElementAt / replaceElementAt
    value,         \* value argument of replaceElementAt
    caseSensitive, \* caseSensitive argument of sortByString
    ret            \* the returned value (a boolean, a number or a reference)

vars == << op, pc, collections, selector, array1, array2, heap, sourceAtCall,
           index, value, caseSensitive, ret >>

----------------------------------------------------------------------------
(* Bounds *)

MaxLen == 3
MaxElem == 2
MaxArgs == 2
MaxArgLen == 1
MaxKeyLen == 1

----------------------------------------------------------------------------
(* Values *)

Elems == 1..MaxElem

SeqsUpTo(S, n) == UNION { [1..k -> S] : k \in 0..n }

\* Array<T> | Immutable.List<any> | undefined
Absent == [kind |-> "absent", items |-> << >>]

Present(items) == { [kind |-> k, items |-> items] : k \in {"array", "list"} }

SequenceLike(n) == {Absent} \cup UNION { Present(s) : s \in SeqsUpTo(Elems, n) }

Min(a, b) == IF a < b THEN a ELSE b

Max(a, b) == IF a > b THEN a ELSE b

----------------------------------------------------------------------------
(* length, isEmpty, isNotEmpty, hasValues *)

lengthAbsentZero(arr) ==
    IF arr.kind = "absent" THEN 0
    ELSE Len(arr.items)

length(arr) ==
    IF arr.kind = "absent" THEN 0 - 1
    ELSE IF arr.kind = "list" THEN Len(arr.items)   \* .size
    ELSE Len(arr.items)                             \* .length

\* the body of the forEach callback of _isEmpty: the flag after one collection
isEmptyVisit(flag, collection) ==
    IF collection.kind = "absent" THEN flag
    ELSE IF collection.kind = "list"
         THEN IF Len(collection.items) # 0 THEN FALSE ELSE flag
         ELSE IF Len(collection.items) # 0 THEN FALSE ELSE flag

RECURSIVE isEmptyFrom(_, _, _)
isEmptyFrom(cs, i, flag) ==
    IF i > Len(cs) THEN flag
    ELSE isEmptyFrom(cs, i + 1, isEmptyVisit(flag, cs[i]))

\* a flag assigned, not cleared, by each collection: the last one decides
isEmptyLastWins(cs) ==
    IF Len(cs) = 0 THEN TRUE ELSE isEmptyFrom(<< cs[Len(cs)] >>, 1, TRUE)

isEmpty(cs) == isEmptyFrom(cs, 1, TRUE)

isNotEmpty(cs) == ~ isEmpty(cs)

RECURSIVE hasValuesFrom(_, _, _)
hasValuesFrom(cs, i, flag) ==
    IF i > Len(cs) THEN flag
    ELSE hasValuesFrom(cs, i + 1, IF ~ isEmpty(<< cs[i] >>) THEN TRUE ELSE flag)

\* the flag overwritten by each collection instead of only raised
hasValuesLastWins(cs) ==
    IF Len(cs) = 0 THEN FALSE ELSE ~ isEmpty(<< cs[Len(cs)] >>)

hasValues(cs) == hasValuesFrom(cs, 1, FALSE)

----------------------------------------------------------------------------
(* equalsBy *)

Selectors == {"identity", "isFirst", "constant"}

\* selector(element): three projections T -> V
Select(sel, e) ==
    IF sel = "identity" THEN e
    ELSE IF sel = "isFirst" THEN (IF e = 1 THEN 1 ELSE 0)
    ELSE 0

\* a.some(s => !b.some(ss => selector(s) === selector(ss)))
SomeUnmatched(sel, a, b) ==
    \E i \in 1..Len(a) :
        ~ (\E j \in 1..Len(b) : Select(sel, a[i]) = Select(sel, b[j]))

equalsByOneWay(sel, a1, a2) ==
    IF a1.kind = "absent" THEN a2.kind = "absent"
    ELSE IF a2.kind = "absent" THEN FALSE
    ELSE IF length(a1) # length(a2) THEN FALSE
    ELSE ~ SomeUnmatched(sel, a1.items, a2.items)

equalsBy(sel, a1, a2) ==
    IF a1.kind = "absent" THEN a2.kind = "absent"
    ELSE IF a2.kind = "absent" THEN FALSE
    ELSE IF length(a1) # length(a2) THEN FALSE
    ELSE LET hasDifferingValues ==
                 \/ SomeUnmatched(sel, a1.items, a2.items)
                 \/ SomeUnmatched(sel, a2.items, a1.items)
         IN  ~ hasDifferingValues

----------------------------------------------------------------------------
(* Array.prototype.slice / splice and the index helpers *)

\* a relative index as slice and splice clamp it
Clamp(k, len) == IF k < 0 THEN Max(len + k, 0) ELSE Min(k, len)

\* arr.slice(start, end)
Slice(arr, start, end) ==
    LET from == Clamp(start, Len(arr))
        to   == Clamp(end, Len(arr))
    IN  IF from >= to THEN << >> ELSE SubSeq(arr, from + 1, to)

\* arr.slice(start)
SliceFrom(arr, start) == Slice(arr, start, Len(arr))

\* the contents of arr after arr.splice(start, 1)
Splice1(arr, start) ==
    LET from == Clamp(start, Len(arr))
    IN  IF from >= Len(arr) THEN arr
        ELSE SubSeq(arr, 1, from) \o SubSeq(arr, from + 2, Len(arr))

\* a freshly allocated array holding items
Alloc(h, items) ==
    [heap |-> [r \in {"source", "new"} |-> IF r = "new" THEN items ELSE h["source"]],
     ret  |-> "new"]

Same(h) == [heap |-> h, ret |-> "source"]

\* without the index < 0 guard, splice counts a negative index from the end
removeElementAtNoLowerGuard(h, i) ==
    IF i > Len(h["source"]) THEN Same(h)
    ELSE Alloc(h, Splice1(h["source"], i))

\* splice applied to source itself instead of to a copy
removeElementAtInPlace(h, i) ==
    IF i < 0 \/ i > Len(h["source"]) THEN Same(h)
    ELSE Same([h EXCEPT !["source"] = Splice1(h["source"], i)])

removeElementAt(h, i) ==
    IF i < 0 \/ i > Len(h["source"]) THEN Same(h)
    ELSE Alloc(h, Splice1(h["source"], i))

\* without the single-element case
replaceElementAtNoSingle(h, i, v) ==
    LET source == h["source"]
    IN  IF Len(source) = 0 \/ i < 0 THEN Same(h)
        ELSE IF i = Len(source) - 1 THEN Alloc(h, Slice(source, 0, i) \o << v >>)
        ELSE Alloc(h, Slice(source, 0, i) \o << v >> \o SliceFrom(source, i + 1))

replaceElementAt(h, i, v) ==
    LET source == h["source"]
    IN  IF Len(source) = 0 \/ i < 0 THEN Same(h)
        ELSE IF Len(source) = 1 THEN Alloc(h, << v >>)
        ELSE IF i = Len(source) - 1 THEN Alloc(h, Slice(source, 0, i) \o << v >>)
        ELSE Alloc(h, Slice(source, 0, i) \o << v >> \o SliceFrom(source, i + 1))

----------------------------------------------------------------------------
(* sortByString *)

Chars == {"A", "B", "a"}

\* UTF-16 code unit of a character, the order of the < operator on strings
CodeUnit(c) ==
    CASE c = "A" -> 65
      [] c = "B" -> 66
      [] c = "a" -> 97
      [] c = "b" -> 98

LowerChar(c) ==
    CASE c = "A" -> "a"
      [] c = "B" -> "b"
      [] OTHER   -> c

\* a projected key: a string, or null / undefined
NoKey == [some |-> FALSE, s |-> << >>]

Str(s) == [some |-> TRUE, s |-> s]

Keys == {NoKey} \cup { Str(s) : s \in SeqsUpTo(Chars, MaxKeyLen) }

\* aString?.toLowerCase()
toLowerCase(k) ==
    IF k.some THEN Str([i \in 1..Len(k.s) |-> LowerChar(k.s[i])]) ELSE k

\* s < t on strings: at the first differing position, else the shorter one
StrLess(s, t) ==
    LET n    == Min(Len(s), Len(t))
        diff == { i \in 1..n : s[i] # t[i] }
    IN  IF diff = {} THEN Len(s) < Len(t)
        ELSE LET d == CHOOSE i \in diff : \A j \in diff : i <= j
             IN  CodeUnit(s[d]) < CodeUnit(t[d])

\* aString === "" || aString == null
Blank(k) == (~ k.some) \/ k.s = << >>

Key(e, cs) == IF cs THEN e.n ELSE toLowerCase(e.n)

\* without the two blank-key returns: "" is then the least string
compareNoBlank(a, b, cs) ==
    LET aString == Key(a, cs)
        bString == Key(b, cs)
    IN  IF aString = bString THEN 0
        ELSE IF aString.some /\ bString.some /\ StrLess(aString.s, bString.s) THEN 0 - 1
        ELSE 1

\* the comparison function handed to array.sort
compare(a, b, cs) ==
    LET aString == Key(a, cs)
        bString == Key(b, cs)
    IN  IF Blank(aString) THEN 1
        ELSE IF Blank(bString) THEN 0 - 1
        ELSE IF aString = bString THEN 0
        ELSE IF StrLess(aString.s, bString.s) THEN 0 - 1
        ELSE 1

\* Array.prototype.sort on a short array is an insertion sort. Engines differ
\* in how the insertion point is found: "scan" walks from the right asking
\* compare(earlier, inserted); "bisect" searches by halves asking
\* compare(inserted, earlier); "runs" first takes the leading run, reversing
\* it when it descends, and inserts the remaining elements by halves.
Engines == {"scan", "bisect", "runs"}

RECURSIVE ScanPoint(_, _, _, _)
ScanPoint(sorted, x, j, cs) ==
    IF j >= 1 /\ compare(sorted[j], x, cs) > 0
    THEN ScanPoint(sorted, x, j - 1, cs)
    ELSE j

RECURSIVE BisectPoint(_, _, _, _, _)
BisectPoint(sorted, x, left, right, cs) ==
    IF left < right
    THEN LET mid == left + ((right - left) \div 2)
         IN  IF compare(x, sorted[mid + 1], cs) < 0
             THEN BisectPoint(sorted, x, left, mid, cs)
             ELSE BisectPoint(sorted, x, mid + 1, right, cs)
    ELSE left

InsertAt(sorted, x, j) ==
    SubSeq(sorted, 1, j) \o << x >> \o SubSeq(sorted, j + 1, Len(sorted))

RECURSIVE SortFrom(_, _, _, _)
SortFrom(arr, i, engine, cs) ==
    IF i > Len(arr) THEN arr
    ELSE LET sorted == SubSeq(arr, 1, i - 1)
             x      == arr[i]
             j      == IF engine = "scan"
                       THEN ScanPoint(sorted, x, i - 1, cs)
                       ELSE BisectPoint(sorted, x, 0, i - 1, cs)
         IN  SortFrom(InsertAt(sorted, x, j) \o SubSeq(arr, i + 1, Len(arr)),
                      i + 1, engine, cs)

\* the length of the leading run: the elements that go on descending
\* strictly, or go on not descending, as the first two do
RECURSIVE RunEnd(_, _, _, _)
RunEnd(arr, i, descending, cs) ==
    IF i > Len(arr) THEN i - 1
    ELSE LET order == compare(arr[i], arr[i - 1], cs)
         IN  IF (descending /\ order >= 0) \/ (~ descending /\ order < 0)
             THEN i - 1
             ELSE RunEnd(arr, i + 1, descending, cs)

Reverse(s) == [k \in 1..Len(s) |-> s[Len(s) + 1 - k]]

SortRuns(arr, cs) ==
    IF Len(arr) < 2 THEN arr
    ELSE LET descending == compare(arr[2], arr[1], cs) < 0
             run        == RunEnd(arr, 3, descending, cs)
             head       == SubSeq(arr, 1, run)
             made       == (IF descending THEN Reverse(head) ELSE head)
                             \o SubSeq(arr, run + 1, Len(arr))
         IN  SortFrom(made, run + 1, "bisect", cs)

Sort(arr, engine, cs) ==
    IF engine = "runs" THEN SortRuns(arr, cs) ELSE SortFrom(arr, 2, engine, cs)

\* array.sort(compare): sorts the array in place and returns it
sortByString(h, engine, cs) ==
    Same([h EXCEPT !["source"] = Sort(h["source"], engine, cs)])

\* the elements sortByString is called on: element i carries key ks[i]
Items(ks) == [i \in 1..Len(ks) |-> [id |-> i, n |-> ks[i]]]

----------------------------------------------------------------------------
(* The calls *)

Indexes == (0 - 2)..(MaxLen + 2)

Call(o, cs, sel, a1, a2, src, i, v, c) ==
    /\ op = o
    /\ pc = "call"
    /\ collections = cs
    /\ selector = sel
    /\ array1 = a1
    /\ array2 = a2
    /\ heap = [r \in {"source"} |-> src]
    /\ sourceAtCall = src
    /\ index = i
    /\ value = v
    /\ caseSensitive = c
    /\ ret = "none"

Init ==
    \/ \E o \in {"isEmpty", "isNotEmpty", "hasValues"} :
       \E cs \in SeqsUpTo(SequenceLike(MaxArgLen), MaxArgs) :
           Call(o, cs, "identity", Absent, Absent, << >>, 0, 1, FALSE)
    \/ \E a \in SequenceLike(MaxLen) :
           Call("length", << >>, "identity", a, Absent, << >>, 0, 1, FALSE)
    \/ \E sel \in Selectors : \E a1, a2 \in SequenceLike(MaxLen) :
           Call("equalsBy", << >>, sel, a1, a2, << >>, 0, 1, FALSE)
    \/ \E src \in SeqsUpTo(Elems, MaxLen) : \E i \in Indexes :
           Call("removeElementAt", << >>, "identity", Absent, Absent, src, i, 1, FALSE)
    \/ \E src \in SeqsUpTo(Elems, MaxLen) : \E i \in Indexes : \E v \in Elems :
           Call("replaceElementAt", << >>, "identity", Absent, Absent, src, i, v, FALSE)
    \/ \E ks \in SeqsUpTo(Keys, MaxLen) : \E c \in BOOLEAN :
           Call("sortByString", << >>, "identity", Absent, Absent, Items(ks), 0, 1, c)

Return(r) ==
    /\ pc' = "done"
    /\ ret' = r
    /\ UNCHANGED << op, collections, selector, array1, array2, sourceAtCall,
                    index, value, caseSensitive >>

IsEmpty ==
    /\ pc = "call" /\ op = "isEmpty"
    /\ Return(isEmpty(collections))
    /\ UNCHANGED heap

IsNotEmpty ==
    /\ pc = "call" /\ op = "isNotEmpty"
    /\ Return(isNotEmpty(collections))
    /\ UNCHANGED heap

HasValues ==
    /\ pc = "call" /\ op = "hasValues"
    /\ Return(hasValues(collections))
    /\ UNCHANGED heap

Length ==
    /\ pc = "call" /\ op = "length"
    /\ Return(length(array1))
    /\ UNCHANGED heap

EqualsBy ==
    /\ pc = "call" /\ op = "equalsBy"
    /\ Return(equalsBy(selector, array1, array2))
    /\ UNCHANGED heap

RemoveElementAt ==
    /\ pc = "call" /\ op = "removeElementAt"
    /\ LET r == removeElementAt(heap, index)
       IN  heap' = r.heap /\ Return(r.ret)

ReplaceElementAt ==
    /\ pc = "call" /\ op = "replaceElementAt"
    /\ LET r == replaceElementAt(heap, index, value)
       IN  heap' = r.heap /\ Return(r.ret)

SortByString ==
    /\ pc = "call" /\ op = "sortByString"
    /\ \E engine \in Engines :
           LET r == sortByString(heap, engine, caseSensitive)
           IN  heap' = r.heap /\ Return(r.ret)

Next ==
    \/ IsEmpty
    \/ IsNotEmpty
    \/ HasValues
    \/ Length
    \/ EqualsBy
    \/ RemoveElementAt
    \/ ReplaceElementAt
    \/ SortByString

Spec == Init /\ [][Next]_vars

Done(o) == pc = "done" /\ op = o

\* the array the call returned
Result == heap[ret]

----------------------------------------------------------------------------
(* Properties *)

HasElements(c) == c.kind # "absent" /\ Len(c.items) > 0

\* C1: isEmpty returns true if and only if every argument is absent or has
\* zero elements, whatever the mix of arrays and lists; isEmpty() is true.
C1_IsEmptyIffEveryArgumentEmpty ==
    Done("isEmpty") =>
        /\ ret = (\A i \in 1..Len(collections) : ~ HasElements(collections[i]))
        /\ (Len(collections) = 0 => ret = TRUE)

\* an array and a list in one call, the non-empty one first and an empty one last
C1_Witness ==
    /\ Done("isEmpty")
    /\ Len(collections) = 2
    /\ collections[1].kind # collections[2].kind
    /\ HasElements(collections[1])
    /\ collections[2].kind # "absent" /\ ~ HasElements(collections[2])
    /\ ret = FALSE

\* C2: hasValues and isNotEmpty return the same value for every argument
\* list, and that value is the negation of what isEmpty returns for it.
C2_HasValuesIsNotEmptyAgree ==
    /\ Done("hasValues") =>
           /\ ret = isNotEmpty(collections)
           /\ ret = ~ isEmpty(collections)
    /\ Done("isNotEmpty") =>
           /\ ret = hasValues(collections)
           /\ ret = ~ isEmpty(collections)

\* hasValues on a non-empty collection followed by an absent one
C2_Witness ==
    /\ Done("hasValues")
    /\ Len(collections) = 2
    /\ HasElements(collections[1])
    /\ collections[2].kind = "absent"
    /\ ret = TRUE

Projected(sel, items) == { Select(sel, items[i]) : i \in 1..Len(items) }

\* C3: for two present collections equalsBy is true if and only if the
\* element counts are equal and the two sets of projected values are equal
\* (multiplicity and order ignored); an absent first collection equals only
\* an absent second one, and a present first never equals an absent second.
C3_EqualsByIsCountAndProjectedSets ==
    Done("equalsBy") =>
        IF array1.kind = "absent" THEN ret = (array2.kind = "absent")
        ELSE IF array2.kind = "absent" THEN ret = FALSE
        ELSE ret = (/\ Len(array1.items) = Len(array2.items)
                    /\ Projected(selector, array1.items)
                         = Projected(selector, array2.items))

\* [1,1,2] against [1,2,2] under the identity selector, an array against a list
C3_Witness ==
    /\ Done("equalsBy")
    /\ selector = "identity"
    /\ array1 = [kind |-> "array", items |-> << 1, 1, 2 >>]
    /\ array2 = [kind |-> "list", items |-> << 1, 2, 2 >>]
    /\ ret = TRUE

\* C4: removeElementAt returns the contents of source unchanged when
\* index < 0 or index >= length, and source itself when index < 0 or
\* index > length; for 0 <= index < length the result is one shorter, the
\* elements before index in place and those after it shifted down by one.
C4_RemoveElementAt ==
    Done("removeElementAt") =>
        LET n == Len(sourceAtCall)
        IN  /\ (index < 0 \/ index >= n) => Result = sourceAtCall
            /\ (index < 0 \/ index > n) => ret = "source"
            /\ (0 <= index /\ index < n) =>
                   /\ Len(Result) = n - 1
                   /\ \A k \in 1..index : Result[k] = sourceAtCall[k]
                   /\ \A k \in (index + 1)..(n - 1) : Result[k] = sourceAtCall[k + 1]

\* the boundary index = length: a copy with the same contents
C4_Witness ==
    /\ Done("removeElementAt")
    /\ Len(sourceAtCall) >= 2
    /\ index = Len(sourceAtCall)
    /\ ret = "new"
    /\ Result = sourceAtCall

\* the elements of src at positions below i, and at positions above i
Before(src, i) == [k \in 1..Min(i, Len(src)) |-> src[k]]

After(src, i) == [k \in 1..Max(Len(src) - i - 1, 0) |-> src[i + 1 + k]]

C7_SourceNeverMutated ==
    (Done("removeElementAt") \/ Done("replaceElementAt")) =>
        /\ heap["source"] = sourceAtCall
        /\ Result # sourceAtCall => ret # "source"

\* an element removed in range: the result is a new, shorter array
C7_Witness ==
    /\ Done("removeElementAt")
    /\ 0 <= index /\ index < Len(sourceAtCall)
    /\ ret = "new"
    /\ Len(Result) = Len(sourceAtCall) - 1
    /\ heap["source"] = sourceAtCall

\* C8: length returns -1 if and only if the collection is absent, and the
\* element count (so a number >= 0) of a present array or list.
C8_Length ==
    Done("length") =>
        /\ (ret = 0 - 1) <=> (array1.kind = "absent")
        /\ array1.kind # "absent" => (ret = Len(array1.items) /\ ret >= 0)

\* the length of a list of two or more elements
C8_Witness ==
    /\ Done("length")
    /\ array1.kind = "list"
    /\ Len(array1.items) >= 2
    /\ ret = Len(array1.items)

\* C9: the result of replaceElementAt has the length of source and differs
\* from source at no position other than index.
C9_ReplaceNeverInserts ==
    Done("replaceElementAt") =>
        /\ Len(Result) = Len(sourceAtCall)
        /\ \A k \in 1..Len(sourceAtCall) :
               k # index + 1 => Result[k] = sourceAtCall[k]

IsPermutation(r, s) ==
    /\ Len(r) = Len(s)
    /\ \A i \in 1..Len(s) : \E j \in 1..Len(r) : r[j] = s[i]
    /\ \A i, j \in 1..Len(r) : r[i] = r[j] => i = j

\* C6: after sortByString the array is a permutation of its elements in
\* which every element with an empty or absent key comes after every
\* element with a non-empty key, and the non-empty keys (lowercased unless
\* caseSensitive) are in non-decreasing order.
C6_SortedBlankKeysLast ==
    Done("sortByString") =>
        LET r == heap["source"]
        IN  /\ IsPermutation(r, sourceAtCall)
            /\ \A i, j \in 1..Len(r) :
                   i < j =>
                       /\ ~ (Blank(r[i].n) /\ ~ Blank(r[j].n))
                       /\ (~ Blank(r[i].n) /\ ~ Blank(r[j].n)) =>
                              ~ StrLess(Key(r[j], caseSensitive).s,
                                        Key(r[i], caseSensitive).s)

\* an absent and an empty key ahead of a non-empty one, moved behind it
C6_Witness ==
    /\ Done("sortByString")
    /\ Len(sourceAtCall) = 3
    /\ ~ sourceAtCall[1].n.some
    /\ sourceAtCall[2].n = Str(<< >>)
    /\ ~ Blank(sourceAtCall[3].n)
    /\ heap["source"][1] = sourceAtCall[3]

\* C10: for any two elements a and b of the sorted array, compare(a, b)
\* and compare(b, a) have opposite signs or are both 0.
C10_CompareAntisymmetric ==
    Done("sortByString") =>
        \A i, j \in 1..Len(sourceAtCall) :
            i # j =>
                compare(sourceAtCall[i], sourceAtCall[j], caseSensitive)
                    = 0 - compare(sourceAtCall[j], sourceAtCall[i], caseSensitive)

====
